---- MODULE Spec2Model ----
(***************************************************************************)
(* A model of orisano/pixelmatch: MatchPixel, colorDelta, isAntiAliased,   *)
(* hasManySiblings, isIdentical/equals, readLine and imageLineReader.      *)
(*                                                                         *)
(* Go's float64 values are modelled as exact rationals.  A rational is a   *)
(* signed arbitrary-precision numerator over a positive denominator.       *)
(* Arbitrary-precision naturals are little-endian sequences of limbs in    *)
(* base 10000 without leading zeros.                                       *)
(***************************************************************************)
EXTENDS Integers, Sequences, FiniteSets, TLC

\* ------------------------------------------------------------------------
\* Exact arithmetic (the carrier of the float64 computations).
\* ------------------------------------------------------------------------
Base == 100 * 100

RECURSIVE NFromInt(_)
NFromInt(n) == IF n = 0 THEN << >> ELSE << n % Base >> \o NFromInt(n \div Base)

RECURSIVE NAddC(_, _, _)
NAddC(u, v, c) ==
  IF u = << >> /\ v = << >>
  THEN IF c = 0 THEN << >> ELSE << c >>
  ELSE LET x == IF u = << >> THEN 0 ELSE Head(u)
           yy == IF v = << >> THEN 0 ELSE Head(v)
           s == x + yy + c
           ra == IF u = << >> THEN << >> ELSE Tail(u)
           rb == IF v = << >> THEN << >> ELSE Tail(v)
       IN  << s % Base >> \o NAddC(ra, rb, s \div Base)

NAdd(u, v) == NAddC(u, v, 0)

RECURSIVE NNorm(_)
NNorm(u) == IF u = << >> THEN u
            ELSE IF u[Len(u)] = 0 THEN NNorm(SubSeq(u, 1, Len(u) - 1)) ELSE u

\* a - b for a >= b
RECURSIVE NSubB(_, _, _)
NSubB(u, v, w) ==
  IF u = << >> THEN << >>
  ELSE LET yy == IF v = << >> THEN 0 ELSE Head(v)
           d == Head(u) - yy - w
           rb == IF v = << >> THEN << >> ELSE Tail(v)
       IN  IF d < 0 THEN << d + Base >> \o NSubB(Tail(u), rb, 1)
                    ELSE << d >> \o NSubB(Tail(u), rb, 0)

NSub(u, v) == NNorm(NSubB(u, v, 0))

\* -1, 0, 1 as a is below, equal to, above b
RECURSIVE NCmpFrom(_, _, _)
NCmpFrom(u, v, i) ==
  IF i = 0 THEN 0
  ELSE IF u[i] < v[i] THEN -1
  ELSE IF u[i] > v[i] THEN 1
  ELSE NCmpFrom(u, v, i - 1)

NCmp(u, v) ==
  IF Len(u) < Len(v) THEN -1
  ELSE IF Len(u) > Len(v) THEN 1
  ELSE NCmpFrom(u, v, Len(u))

\* a * k + c for one limb k
RECURSIVE NMulLimb(_, _, _)
NMulLimb(u, k, c) ==
  IF u = << >> THEN (IF c = 0 THEN << >> ELSE << c >>)
  ELSE LET p == Head(u) * k + c
       IN  << p % Base >> \o NMulLimb(Tail(u), k, p \div Base)

NShift(u) == IF u = << >> THEN u ELSE << 0 >> \o u

RECURSIVE NMul(_, _)
NMul(u, v) ==
  IF u = << >> \/ v = << >> THEN << >>
  ELSE NAdd(NNorm(NMulLimb(u, Head(v), 0)), NShift(NMul(u, Tail(v))))

\* Signed numbers.
ZMk(neg, mag) == [neg |-> neg /\ mag # << >>, mag |-> mag]
ZZero == ZMk(FALSE, << >>)
ZOf(n) == IF n < 0 THEN ZMk(TRUE, NFromInt(-n)) ELSE ZMk(FALSE, NFromInt(n))
ZNeg(u) == ZMk(~u.neg, u.mag)
ZAbs(u) == ZMk(FALSE, u.mag)
ZAdd(u, v) ==
  IF u.neg = v.neg THEN ZMk(u.neg, NAdd(u.mag, v.mag))
  ELSE LET ge == NCmp(u.mag, v.mag) >= 0
       IN  ZMk(IF ge THEN u.neg ELSE v.neg,
               NSub(IF ge THEN u.mag ELSE v.mag, IF ge THEN v.mag ELSE u.mag))
ZSub(u, v) == ZAdd(u, ZNeg(v))
ZMul(u, v) == ZMk(u.neg # v.neg, NMul(u.mag, v.mag))
ZIsZero(u) == u.mag = << >>
ZSign(u) == IF u.mag = << >> THEN 0 ELSE IF u.neg THEN -1 ELSE 1
ZLt(u, v) == ZSign(ZSub(u, v)) < 0
ZLe(u, v) == ZSign(ZSub(u, v)) <= 0

\* a function or sequence as an explicit table, so that it is evaluated once
Tabulate(f) == f @@ << >>

\* Rationals: a signed numerator n over a positive denominator d.
QMk(n, d) == [n |-> n, d |-> d]
QInt(k) == QMk(ZOf(k), NFromInt(1))
QRat(k, m) == QMk(ZOf(k), NFromInt(m))
QPos(d) == ZMk(FALSE, d)
\* numbers over one denominator are added without widening it
QAdd(p, q) ==
  QMk(ZAdd(IF p.d = q.d THEN p.n ELSE ZMul(p.n, QPos(q.d)),
           IF p.d = q.d THEN q.n ELSE ZMul(q.n, QPos(p.d))),
      IF p.d = q.d THEN p.d ELSE NMul(p.d, q.d))
QNeg(p) == QMk(ZNeg(p.n), p.d)
QSub(p, q) == QAdd(p, QNeg(q))
QMul(p, q) == QMk(ZMul(p.n, q.n), NMul(p.d, q.d))
QAbs(p) == QMk(ZAbs(p.n), p.d)
\* the same number over a denominator k times as large, so that sums of
\* blended and unblended channels share their denominator
QWiden(p, k) == QMk(ZMul(p.n, ZOf(k)), NMul(p.d, NFromInt(k)))
QSign(p) == ZSign(p.n)
QCmp(p, q) == QSign(QSub(p, q))
QLt(p, q) == QCmp(p, q) < 0
QLe(p, q) == QCmp(p, q) <= 0
QEq(p, q) == QCmp(p, q) = 0
\* uint8(f): the float is truncated toward zero; every value converted by
\* the program lies in (-1, 256).
QToUint8(p) ==
  IF QSign(p) < 0 THEN 0
  ELSE CHOOSE k \in 0..255 : QLe(QInt(k), p) /\ QLt(p, QInt(k + 1))

\* ------------------------------------------------------------------------
\* Colours and the perceptual delta.
\* ------------------------------------------------------------------------
\* type rgba struct { R, G, B, A uint32 }
rgba(r, g, v, u) == [R |-> r, G |-> g, B |-> v, A |-> u]

\* x = 1.0 / 256.0; r = float64(c.R) * x, ...
rgbaFromColor(c) ==
  [r |-> QRat(c.R, 256), g |-> QRat(c.G, 256),
   b |-> QRat(c.B, 256), a |-> QRat(c.A, 256)]

\* 255 + (c-255)*a
blend(c, u) == QAdd(QInt(255), QMul(QSub(c, QInt(255)), u))

\* a /= 255; blend(r, a), blend(g, a), blend(b, a)
blendRGBA(r, g, v, u) ==
  LET a2 == QMul(u, QRat(1, 255))
  IN  [r |-> blend(r, a2), g |-> blend(g, a2), b |-> blend(v, a2)]

Coef(k) == QRat(k, 100000000)

rgbaToY(r, g, v) ==
  QAdd(QAdd(QMul(r, Coef(29889531)), QMul(g, Coef(58662247))),
       QMul(v, Coef(11448223)))

rgbaToI(r, g, v) ==
  QSub(QSub(QMul(r, Coef(59597799)), QMul(g, Coef(27417610))),
       QMul(v, Coef(32180189)))

rgbaToQ(r, g, v) ==
  QAdd(QSub(QMul(r, Coef(21147017)), QMul(g, Coef(52261711))),
       QMul(v, Coef(31114694)))

\* the colour after "if aa < 255 { blendRGBA }"
Blended(c) ==
  LET f == rgbaFromColor(c)
  IN  IF QLt(f.a, QInt(255)) THEN blendRGBA(f.r, f.g, f.b, f.a)
      ELSE [r |-> QWiden(f.r, 65280), g |-> QWiden(f.g, 65280), b |-> QWiden(f.b, 65280)]

\* colorDelta without "if ya > yb { return -delta }"
colorDeltaUnsigned(u, v, yOnly) ==
  IF u.A = v.A /\ u.R = v.R /\ u.G = v.G /\ u.B = v.B THEN QInt(0)
  ELSE
    LET cu == Blended(u)
        cv == Blended(v)
        ya == rgbaToY(cu.r, cu.g, cu.b)
        yb == rgbaToY(cv.r, cv.g, cv.b)
        yy  == QSub(ya, yb)
    IN  IF yOnly THEN yy
        ELSE
          LET i == QSub(rgbaToI(cu.r, cu.g, cu.b), rgbaToI(cv.r, cv.g, cv.b))
              q == QSub(rgbaToQ(cu.r, cu.g, cu.b), rgbaToQ(cv.r, cv.g, cv.b))
              delta == QAdd(QAdd(QMul(QRat(5053, 10000), QMul(yy, yy)),
                                 QMul(QRat(2990, 10000), QMul(i, i))),
                            QMul(QRat(1957, 10000), QMul(q, q)))
          IN  delta

colorDelta(u, v, yOnly) ==
  IF u.A = v.A /\ u.R = v.R /\ u.G = v.G /\ u.B = v.B THEN QInt(0)
  ELSE
    LET cu == Blended(u)
        cv == Blended(v)
        ya == rgbaToY(cu.r, cu.g, cu.b)
        yb == rgbaToY(cv.r, cv.g, cv.b)
        yy  == QSub(ya, yb)
    IN  IF yOnly THEN yy
        ELSE
          LET i == QSub(rgbaToI(cu.r, cu.g, cu.b), rgbaToI(cv.r, cv.g, cv.b))
              q == QSub(rgbaToQ(cu.r, cu.g, cu.b), rgbaToQ(cv.r, cv.g, cv.b))
              delta == QAdd(QAdd(QMul(QRat(5053, 10000), QMul(yy, yy)),
                                 QMul(QRat(2990, 10000), QMul(i, i))),
                            QMul(QRat(1957, 10000), QMul(q, q)))
          IN  IF QLt(yb, ya) THEN QNeg(delta) ELSE delta


\* ------------------------------------------------------------------------
\* Images (image.Rectangle and the packed layouts of package image).
\* ------------------------------------------------------------------------
Rect(x0, y0, x1, y1) == [Min |-> [X |-> x0, Y |-> y0], Max |-> [X |-> x1, Y |-> y1]]
Dx(r) == r.Max.X - r.Min.X
Dy(r) == r.Max.Y - r.Min.Y
Empty(r) == r.Min.X >= r.Max.X \/ r.Min.Y >= r.Max.Y
\* Rectangle.Eq: r == s || r.Empty() && s.Empty()
RectEq(r, s) == r = s \/ (Empty(r) /\ Empty(s))
PointIn(x, yy, r) == r.Min.X <= x /\ x < r.Max.X /\ r.Min.Y <= yy /\ yy < r.Max.Y

\* bytes per pixel of each layout
BytesPerPixel(kind) ==
  CASE kind = "RGBA" -> 4 [] kind = "NRGBA" -> 4 [] kind = "RGBA64" -> 8
    [] kind = "NRGBA64" -> 8 [] kind = "Gray" -> 1 [] kind = "Gray16" -> 2

NilImage == [kind |-> "nil", Rect |-> Rect(0, 0, 0, 0), Stride |-> 0, Pix |-> << >>]

\* (y-Rect.Min.Y)*Stride + (x-Rect.Min.X)*bpp, as a 0-based offset
PixOffset(img, x, yy) ==
  (yy - img.Rect.Min.Y) * img.Stride + (x - img.Rect.Min.X) * BytesPerPixel(img.kind)

\* Pix[off], 0-based
PixAt(img, off) == img.Pix[off + 1]

RECURSIVE Flatten(_)
Flatten(ss) == IF ss = << >> THEN << >> ELSE Head(ss) \o Flatten(Tail(ss))

\* image.NewRGBA(r): a zeroed buffer with Stride = 4*Dx
NewRGBA(r) ==
  LET w == IF Empty(r) THEN 0 ELSE Dx(r)
      h == IF Empty(r) THEN 0 ELSE Dy(r)
  IN  [kind |-> "RGBA", Rect |-> r, Stride |-> 4 * Dx(r),
       Pix |-> Tabulate([k \in 1..(4 * w * h) |-> 0])]

\* out.SetRGBA(x, y, c)
SetRGBA(img, x, yy, c) ==
  IF ~PointIn(x, yy, img.Rect) THEN img
  ELSE LET i == PixOffset(img, x, yy)
       IN  [img EXCEPT !.Pix = Tabulate([k \in DOMAIN img.Pix |->
              IF k = i + 1 THEN c.R ELSE IF k = i + 2 THEN c.G
              ELSE IF k = i + 3 THEN c.B ELSE IF k = i + 4 THEN c.A
              ELSE img.Pix[k]])]

\* copy(dst[off:], src)
CopyAt(dst, off, src) ==
  Tabulate([k \in DOMAIN dst |->
     IF k > off /\ k - off <= Len(src) THEN src[k - off] ELSE dst[k]])

\* ------------------------------------------------------------------------
\* readLine: one row of an image as canonical 16-bit premultiplied colours.
\* ------------------------------------------------------------------------
Be16(hi, lo) == hi * 256 + lo

\* the product r * u of two values below 2^16, as hi * 2^16 + lo
MulWide(r, u) ==
  LET p1 == r * (u \div 256)
      p0 == r * (u % 256)
      lo1 == (p1 % 256) * 256 + p0
  IN  [hi |-> p1 \div 256 + lo1 \div 65536, lo |-> lo1 % 65536]

\* r * u in uint32: the product modulo 2^32
Mul32(r, u) == [MulWide(r, u) EXCEPT !.hi = @ % 65536]

\* p / d in uint32 for d = 0xff or 0xffff (2^16 = k * d + 1)
Div32(p, d) == p.hi * (65536 \div d) + (p.hi + p.lo) \div d

\* r * a / 0xffff in uint32
MulDiv16(r, u) == Div32(Mul32(r, u), 65535)

\* the *image.NRGBA case without the premultiplication
readPixelStraight(img, offset) ==
  LET s(k) == PixAt(img, offset + k)
  IN  CASE img.kind = "RGBA" ->
             rgba(s(0) * 257, s(1) * 257, s(2) * 257, s(3) * 257)
        [] img.kind = "RGBA64" ->
             rgba(Be16(s(0), s(1)), Be16(s(2), s(3)), Be16(s(4), s(5)), Be16(s(6), s(7)))
        [] img.kind = "NRGBA" ->
             rgba(s(0) * 257, s(1) * 257, s(2) * 257, s(3) * 257)
        [] img.kind = "NRGBA64" ->
             LET u == Be16(s(6), s(7))
             IN  rgba(MulDiv16(Be16(s(0), s(1)), u), MulDiv16(Be16(s(2), s(3)), u),
                      MulDiv16(Be16(s(4), s(5)), u), u)
        [] img.kind = "Gray" ->
             rgba(s(0) * 257, s(0) * 257, s(0) * 257, 65535)
        [] img.kind = "Gray16" ->
             rgba(Be16(s(0), s(1)), Be16(s(0), s(1)), Be16(s(0), s(1)), 65535)

readPixel(img, offset) ==
  LET s(k) == PixAt(img, offset + k)
  IN  CASE img.kind = "RGBA" ->
             rgba(s(0) * 257, s(1) * 257, s(2) * 257, s(3) * 257)
        [] img.kind = "RGBA64" ->
             rgba(Be16(s(0), s(1)), Be16(s(2), s(3)), Be16(s(4), s(5)), Be16(s(6), s(7)))
        [] img.kind = "NRGBA" ->
             IF s(3) = 255
             THEN rgba(s(0) * 257, s(1) * 257, s(2) * 257, 65535)
             ELSE rgba((s(0) * 257 * s(3)) \div 255, (s(1) * 257 * s(3)) \div 255,
                       (s(2) * 257 * s(3)) \div 255, s(3) * 257)
        [] img.kind = "NRGBA64" ->
             LET u == Be16(s(6), s(7))
             IN  rgba(MulDiv16(Be16(s(0), s(1)), u), MulDiv16(Be16(s(2), s(3)), u),
                      MulDiv16(Be16(s(4), s(5)), u), u)
        [] img.kind = "Gray" ->
             rgba(s(0) * 257, s(0) * 257, s(0) * 257, 65535)
        [] img.kind = "Gray16" ->
             rgba(Be16(s(0), s(1)), Be16(s(0), s(1)), Be16(s(0), s(1)), 65535)

\* readLine(dst, img, y) with len(dst) = n
readLine(n, img, yy) ==
  LET lineOffset == PixOffset(img, img.Rect.Min.X, yy)
  IN  Tabulate([i \in 1..n |-> readPixel(img, lineOffset + (i - 1) * BytesPerPixel(img.kind))])

\* v.At(x, y) of the image types: the colour value stored at (x, y), the
\* zero colour outside the bounds
ColorAt(img, x, yy) ==
  LET n == BytesPerPixel(img.kind)
      i == PixOffset(img, x, yy)
  IN  IF PointIn(x, yy, img.Rect) THEN Tabulate([k \in 1..n |-> PixAt(img, i + k - 1)])
      ELSE Tabulate([k \in 1..n |-> 0])

\* c |= c << 8 for a byte c
Widen8(c) == c + c * 256

\* Color.RGBA() of color.RGBA, RGBA64, NRGBA, NRGBA64, Gray, Gray16 for the
\* colour value c of that model
ColorRGBA(kind, c) ==
  CASE kind = "RGBA" -> rgba(Widen8(c[1]), Widen8(c[2]), Widen8(c[3]), Widen8(c[4]))
    [] kind = "RGBA64" ->
         rgba(Be16(c[1], c[2]), Be16(c[3], c[4]), Be16(c[5], c[6]), Be16(c[7], c[8]))
    [] kind = "NRGBA" ->
         rgba(Div32(Mul32(Widen8(c[1]), c[4]), 255), Div32(Mul32(Widen8(c[2]), c[4]), 255),
              Div32(Mul32(Widen8(c[3]), c[4]), 255), Widen8(c[4]))
    [] kind = "NRGBA64" ->
         rgba(Div32(Mul32(Be16(c[1], c[2]), Be16(c[7], c[8])), 65535),
              Div32(Mul32(Be16(c[3], c[4]), Be16(c[7], c[8])), 65535),
              Div32(Mul32(Be16(c[5], c[6]), Be16(c[7], c[8])), 65535),
              Be16(c[7], c[8]))
    [] kind = "Gray" -> rgba(Widen8(c[1]), Widen8(c[1]), Widen8(c[1]), 65535)
    [] kind = "Gray16" -> rgba(Be16(c[1], c[2]), Be16(c[1], c[2]), Be16(c[1], c[2]), 65535)

\* the default branch of readLine: dst[i] = v.At(rect.Min.X+i, y).RGBA()
readLineGeneric(n, img, yy) ==
  Tabulate([i \in 1..n |-> ColorRGBA(img.kind, ColorAt(img, img.Rect.Min.X + i - 1, yy))])

\* ------------------------------------------------------------------------
\* isIdentical / equals: the byte-identical fast path.
\* ------------------------------------------------------------------------
\* pix[lo:hi] is in range iff hi <= cap(pix); the views built here have
\* cap = len.
SliceOK(pix, lo, hi) == 0 <= lo /\ lo <= hi /\ hi <= Len(pix)
Slice(pix, lo, hi) == SubSeq(pix, lo + 1, hi)

RECURSIVE equalsRows(_, _, _, _, _, _)
equalsRows(pixA, pixB, strideA, strideB, h, yy) ==
  IF yy >= h THEN "true"
  ELSE IF ~SliceOK(pixA, yy * strideA, yy * strideA + strideA)
          \/ ~SliceOK(pixB, yy * strideB, yy * strideB + strideB) THEN "panic"
  ELSE IF Slice(pixA, yy * strideA, yy * strideA + strideA)
          # Slice(pixB, yy * strideB, yy * strideB + strideB) THEN "false"
  ELSE equalsRows(pixA, pixB, strideA, strideB, h, yy + 1)

\* equals comparing w bytes of each row, not the bytes of w pixels
RECURSIVE equalsRowsW(_, _, _, _, _, _, _)
equalsRowsW(pixA, pixB, strideA, strideB, w, h, yy) ==
  IF yy >= h THEN "true"
  ELSE IF ~SliceOK(pixA, yy * strideA, yy * strideA + w)
          \/ ~SliceOK(pixB, yy * strideB, yy * strideB + w) THEN "panic"
  ELSE IF Slice(pixA, yy * strideA, yy * strideA + w)
          # Slice(pixB, yy * strideB, yy * strideB + w) THEN "false"
  ELSE equalsRowsW(pixA, pixB, strideA, strideB, w, h, yy + 1)

equalsWidthBytes(pixA, pixB, strideA, strideB, rect) ==
  LET w == Dx(rect)
      h == Dy(rect)
  IN  IF w * h = Len(pixA) /\ w * h = Len(pixB)
      THEN (IF pixA = pixB THEN "true" ELSE "false")
      ELSE equalsRowsW(pixA, pixB, strideA, strideB, w, h, 0)

equals(pixA, pixB, strideA, strideB, rect) ==
  LET w == Dx(rect)
      h == Dy(rect)
  IN  IF w * h = Len(pixA) /\ w * h = Len(pixB)
      THEN (IF pixA = pixB THEN "true" ELSE "false")
      ELSE equalsRows(pixA, pixB, strideA, strideB, h, 0)

PackedKinds == {"RGBA", "RGBA64", "NRGBA", "NRGBA64", "Gray", "Gray16"}

isIdentical(u, v) ==
  IF u.kind \in PackedKinds /\ v.kind = u.kind
  THEN equals(u.Pix, v.Pix, u.Stride, v.Stride, u.Rect)
  ELSE "false"

\* ------------------------------------------------------------------------
\* imageLineReader: a window of five decoded rows around the current row.
\* ------------------------------------------------------------------------
\* A slot of lines [5][]rgba: ok is "the slice is not nil", id names the
\* backing array, data is its content.
NilLine == [ok |-> FALSE, id |-> 0, data |-> << >>]
MkLine(id, data) == [ok |-> TRUE, id |-> id, data |-> data]

newImageLineReader(img, yy) ==
  [rect |-> img.Rect, width |-> Dx(img.Rect), y |-> yy,
   lines |-> <<NilLine, NilLine, NilLine, NilLine, NilLine>>, nbuf |-> 0]

\* readLine(buf, ...) writes through the backing array, so every slot that
\* shares the array sees the new content
WriteLine(lines, id, data) ==
  Tabulate([i \in 1..5 |-> IF lines[i].ok /\ lines[i].id = id THEN MkLine(id, data) ELSE lines[i]])

RowInside(r, yy) == r.rect.Min.Y <= yy /\ yy < r.rect.Max.Y

\* the first call over the slots 0..3 only
RECURSIVE FillLinesFour(_, _, _)
FillLinesFour(r, img, i) ==
  IF i > 3 THEN r
  ELSE LET yy == r.y + i - 2
       IN  IF RowInside(r, yy)
           THEN FillLinesFour([r EXCEPT !.lines[i + 1] = MkLine(r.nbuf + 1, readLine(r.width, img, yy)),
                                        !.nbuf = r.nbuf + 1], img, i + 1)
           ELSE FillLinesFour(r, img, i + 1)

\* the first call: for i := range r.lines { ... make, readLine ... }
RECURSIVE FillLines(_, _, _)
FillLines(r, img, i) ==
  IF i > 4 THEN r
  ELSE LET yy == r.y + i - 2
       IN  IF RowInside(r, yy)
           THEN FillLines([r EXCEPT !.lines[i + 1] = MkLine(r.nbuf + 1, readLine(r.width, img, yy)),
                                    !.nbuf = r.nbuf + 1], img, i + 1)
           ELSE FillLines(r, img, i + 1)

\* the later calls: rotate the window and decode row y+2 into the freed slot
RotateLines(r, img) ==
  LET old == r.lines[1]
      rot == <<r.lines[2], r.lines[3], r.lines[4], r.lines[5], old>>
  IN  IF RowInside(r, r.y + 2)
      THEN IF ~old.ok
           THEN [r EXCEPT !.lines = [rot EXCEPT ![5] = MkLine(r.nbuf + 1, readLine(r.width, img, r.y + 2))],
                          !.nbuf = r.nbuf + 1]
           ELSE [r EXCEPT !.lines = WriteLine(rot, old.id, readLine(r.width, img, r.y + 2))]
      ELSE [r EXCEPT !.lines = [rot EXCEPT ![5] = NilLine]]

\* Next() returns false at the end of the image and true otherwise
NextOK(r) == r.y # r.rect.Max.Y

\* the reader after a call of Next()
ReaderNext(r, img) ==
  IF ~NextOK(r) THEN r
  ELSE LET r2 == IF ~r.lines[3].ok THEN FillLines(r, img, 0) ELSE RotateLines(r, img)
       IN  [r2 EXCEPT !.y = r.y + 1]

Line(r) == r.lines[3].data
Y(r) == r.y - 1

NoColor == rgba(0, 0, 0, 0)

\* At(x, y) = &r.lines[y-r.Y()+2][x]; ok is FALSE when an index expression
\* is out of range (a run-time panic): fault "row" when y-r.Y()+2 is not a
\* slot 0..4 or the slot is nil, fault "column" when x is not an index of
\* the line
At(r, x, yy) ==
  LET k == yy - Y(r) + 2
  IN  IF k < 0 \/ k > 4 THEN [ok |-> FALSE, c |-> NoColor, fault |-> "row"]
      ELSE IF ~r.lines[k + 1].ok THEN [ok |-> FALSE, c |-> NoColor, fault |-> "row"]
      ELSE IF x < 0 \/ x >= Len(r.lines[k + 1].data)
      THEN [ok |-> FALSE, c |-> NoColor, fault |-> "column"]
      ELSE [ok |-> TRUE, c |-> r.lines[k + 1].data[x + 1], fault |-> "none"]

\* the outcome of a call that indexed out of range inside At
Panic(v) == IF v.fault = "row" THEN "panicrow" ELSE "panic"

maxInt(u, v) == IF u < v THEN v ELSE u
minInt(u, v) == IF u < v THEN u ELSE v

\* ------------------------------------------------------------------------
\* The images the comparison is run on.
\* ------------------------------------------------------------------------
MaxW == 3
MaxH == 3
Margin == 1
TallH == 6

Kinds == {"RGBA", "NRGBA", "Gray"}

\* the bytes of one pixel of palette entry idx in each layout: 1 black,
\* 2 white, 3 and 4 two mid grays, 5 and 6 fully transparent
PixVal(kind, idx) ==
  CASE kind = "RGBA" ->
         << <<0, 0, 0, 255>>, <<255, 255, 255, 255>>, <<128, 128, 128, 255>>,
            <<100, 100, 100, 255>>, <<0, 0, 0, 0>>, <<0, 0, 0, 0>> >>[idx]
    [] kind = "NRGBA" ->
         << <<0, 0, 0, 255>>, <<255, 255, 255, 255>>, <<128, 128, 128, 255>>,
            <<100, 100, 100, 255>>, <<255, 0, 0, 0>>, <<0, 0, 255, 0>> >>[idx]
    [] kind = "Gray" ->
         << <<0>>, <<255>>, <<128>>, <<100>>, <<255>>, <<254>> >>[idx]

Patterns == {"black", "diag3", "diag4", "dot", "clear5", "clear6"}

\* palette entry of pixel (i, j) of a w x h picture
Pat(p, i, j, w, h) ==
  LET k == (w + h - 2) \div 2
      diag(m) == IF i + j < k THEN 1 ELSE IF i + j = k THEN m ELSE 2
  IN  CASE p = "black" -> 1 [] p = "diag3" -> diag(3) [] p = "diag4" -> diag(4)
        [] p = "dot" -> (IF i = w - 1 /\ j = h - 1 THEN 2 ELSE 1)
        [] p = "clear5" -> 5 [] p = "clear6" -> 6

\* the palette index of pixel (x, y): the picture inside r, pad around it
PixelIndex(pat, pad, r, x, yy) ==
  IF PointIn(x, yy, r) THEN Pat(pat, x - r.Min.X, yy - r.Min.Y, Dx(r), Dy(r)) ELSE pad

\* a freshly allocated image over the rectangle full, of the given layout,
\* that shows the picture inside r
NewImage(kind, full, r, pat, pad) ==
  LET rows == Tabulate([j \in 1..Dy(full) |->
                 Flatten(Tabulate([i \in 1..Dx(full) |->
                    PixVal(kind, PixelIndex(pat, pad, r, full.Min.X + i - 1, full.Min.Y + j - 1))]))])
  IN  [kind |-> kind, Rect |-> full, Stride |-> BytesPerPixel(kind) * Dx(full),
       Pix |-> Flatten(rows)]

\* p.SubImage(r) for r inside p.Rect and not empty: Pix: p.Pix[i:]
SubImage(p, r) ==
  LET i == PixOffset(p, r.Min.X, r.Min.Y)
  IN  [kind |-> p.kind, Rect |-> r, Stride |-> p.Stride,
       Pix |-> SubSeq(p.Pix, i + 1, Len(p.Pix))]

Views == {"full", "subR", "subRw", "subL"}

Fixture(kind, r, pat, view) ==
  LET pad == IF view = "subRw" THEN 2 ELSE 1
      parent == CASE view = "full" -> r
                  [] view \in {"subR", "subRw"} ->
                       Rect(r.Min.X, r.Min.Y, r.Max.X + Margin, r.Max.Y + Margin)
                  [] view = "subL" ->
                       Rect(r.Min.X - Margin, r.Min.Y, r.Max.X, r.Max.Y)
  IN  IF view = "full" \/ Empty(r) THEN NewImage(kind, r, r, pat, pad)
      ELSE SubImage(NewImage(kind, parent, r, pat, pad), r)

\* every canonical colour a pixel of these images decodes to
OnePixel(kind, bytes) ==
  [kind |-> kind, Rect |-> Rect(0, 0, 1, 1), Stride |-> Len(bytes), Pix |-> bytes]

Colors == {readPixel(OnePixel(k, PixVal(k, i)), 0) : k \in Kinds, i \in 1..6}

\* pixels of further colours: red, cyan, half-transparent ones, and two
\* 16-bit colours of equal luma
Samples ==
  { <<"RGBA", <<255, 0, 0, 255>> >>, <<"RGBA", <<0, 255, 255, 255>> >>,
    <<"RGBA", <<0, 0, 0, 128>> >>, <<"RGBA", <<64, 0, 0, 128>> >>,
    <<"NRGBA", <<0, 255, 0, 128>> >>,
    <<"RGBA64", <<42, 43, 0, 0, 0, 0, 255, 255>> >>,
    <<"RGBA64", <<0, 0, 14, 98, 36, 101, 255, 255>> >> }

DeltaColors == Colors \cup {readPixel(OnePixel(p[1], p[2]), 0) : p \in Samples}

\* colorDelta over these colours
DeltaTable == Tabulate([p \in DeltaColors \X DeltaColors |-> colorDelta(p[1], p[2], FALSE)])
LumaTable == Tabulate([p \in DeltaColors \X DeltaColors |-> colorDelta(p[1], p[2], TRUE)])

\* Ya - Yb of the blended colours
LumaOf(u, v) == LumaTable[<<u, v>>]

\* ------------------------------------------------------------------------
\* The anti-aliasing classifier.  Results are "true", "false", or "panic" /
\* "panicrow" (an index out of range inside At).
\* ------------------------------------------------------------------------
\* for x := x0; x <= x2; x++ { for y := y0; y <= y2; y++ { ... } }: the k-th
\* visited neighbour (0-based) of a window that is ny rows high
NbrX(x0, ny, k) == x0 + (k \div ny)
NbrY(y0, ny, k) == y0 + (k % ny)

OnEdgeSeed(x0, x1, x2, y0, y1, y2) ==
  IF x1 = x0 \/ x1 = x2 \/ y1 = y0 \/ y1 = y2 THEN 1 ELSE 0

RECURSIVE hasManySiblingsLoop(_, _, _, _, _, _, _, _, _, _)
hasManySiblingsLoop(img, u, x1, y1, x0, y0, nx, ny, k, zeroes) ==
  IF k >= nx * ny THEN "false"
  ELSE LET x == NbrX(x0, ny, k)
           yy == NbrY(y0, ny, k)
       IN  IF x = x1 /\ yy = y1
           THEN hasManySiblingsLoop(img, u, x1, y1, x0, y0, nx, ny, k + 1, zeroes)
           ELSE LET v == At(img, x, yy)
                    z == IF v.ok /\ u.R = v.c.R /\ u.G = v.c.G /\ u.B = v.c.B /\ u.A = v.c.A
                         THEN zeroes + 1 ELSE zeroes
                IN  IF ~v.ok THEN Panic(v)
                    ELSE IF z > 2 THEN "true"
                    ELSE hasManySiblingsLoop(img, u, x1, y1, x0, y0, nx, ny, k + 1, z)

hasManySiblings(img, x1, y1) ==
  LET rect == img.rect
      x0 == maxInt(x1 - 1, rect.Min.X)
      y0 == maxInt(y1 - 1, rect.Min.Y)
      x2 == minInt(x1 + 1, rect.Max.X - 1)
      y2 == minInt(y1 + 1, rect.Max.Y - 1)
      u == At(img, x1, y1)
  IN  IF ~u.ok THEN Panic(u)
      ELSE hasManySiblingsLoop(img, u.c, x1, y1, x0, y0, x2 - x0 + 1, y2 - y0 + 1, 0,
                               OnEdgeSeed(x0, x1, x2, y0, y1, y2))

\* a && b and a || b over results, left to right with short circuit
AndThen(p, q) == IF p = "true" THEN q ELSE p
OrElse(p, q) == IF p = "false" THEN q ELSE p

\* the neighbour loop of isAntiAliased; st.res is "go" while the loop runs
\* tab.luma[<<c, n>>] is colorDelta(c, n, true)
RECURSIVE isAntiAliasedLoop(_, _, _, _, _, _, _, _, _, _, _)
isAntiAliasedLoop(tab, u, c, x1, y1, x0, y0, nx, ny, k, st) ==
  IF k >= nx * ny THEN st
  ELSE LET x == NbrX(x0, ny, k)
           yy == NbrY(y0, ny, k)
       IN  IF x = x1 /\ yy = y1
           THEN isAntiAliasedLoop(tab, u, c, x1, y1, x0, y0, nx, ny, k + 1, st)
           ELSE LET n == At(u, x, yy)
                    delta == tab.luma[<<c, n.c>>]
                IN  IF ~n.ok THEN [st EXCEPT !.res = Panic(n)]
                    ELSE IF QSign(delta) = 0
                    THEN IF st.zeroes + 1 > 2 THEN [st EXCEPT !.res = "false"]
                         ELSE isAntiAliasedLoop(tab, u, c, x1, y1, x0, y0, nx, ny, k + 1,
                                                [st EXCEPT !.zeroes = st.zeroes + 1])
                    ELSE IF QLt(delta, st.min)
                    THEN isAntiAliasedLoop(tab, u, c, x1, y1, x0, y0, nx, ny, k + 1,
                                           [st EXCEPT !.min = delta, !.minX = x, !.minY = yy])
                    ELSE IF QLt(st.max, delta)
                    THEN isAntiAliasedLoop(tab, u, c, x1, y1, x0, y0, nx, ny, k + 1,
                                           [st EXCEPT !.max = delta, !.maxX = x, !.maxY = yy])
                    ELSE isAntiAliasedLoop(tab, u, c, x1, y1, x0, y0, nx, ny, k + 1, st)

isAntiAliased(tab, u, v, x1, y1) ==
  LET r == u.rect
      x0 == maxInt(x1 - 1, r.Min.X)
      y0 == maxInt(y1 - 1, r.Min.Y)
      x2 == minInt(x1 + 1, r.Max.X - 1)
      y2 == minInt(y1 + 1, r.Max.Y - 1)
      c == At(u, x1, y1)
      st0 == [res |-> "go", zeroes |-> OnEdgeSeed(x0, x1, x2, y0, y1, y2),
              min |-> QInt(0), max |-> QInt(0),
              minX |-> 0, minY |-> 0, maxX |-> 0, maxY |-> 0]
      st == isAntiAliasedLoop(tab, u, c.c, x1, y1, x0, y0, x2 - x0 + 1, y2 - y0 + 1, 0, st0)
  IN  IF ~c.ok THEN Panic(c)
      ELSE IF st.res # "go" THEN st.res
      ELSE IF QSign(st.max) = 0 \/ QSign(st.min) = 0 THEN "false"
      ELSE OrElse(AndThen(hasManySiblings(u, st.minX, st.minY), hasManySiblings(v, st.minX, st.minY)),
                  AndThen(hasManySiblings(u, st.maxX, st.maxY), hasManySiblings(v, st.maxX, st.maxY)))

\* ------------------------------------------------------------------------
\* MatchOptions.
\* ------------------------------------------------------------------------
RGBA8(r, g, v, u) == [R |-> r, G |-> g, B |-> v, A |-> u]

\* thresholds and alphas as <<numerator, denominator>>
Thresholds == {<<0, 1>>, <<1, 10>>, <<1, 2>>, <<1, 1>>}
Alphas == {<<1, 10>>, <<1, 1>>}
AltColor == RGBA8(0, 0, 255, 255)

\* the options MatchPixel starts from, before the opts are applied
DefaultOptions ==
  [threshold |-> <<1, 10>>, includeAA |-> FALSE, alpha |-> <<1, 10>>,
   antiAliasedColor |-> RGBA8(255, 255, 0, 0), diffColor |-> RGBA8(255, 0, 0, 0),
   diffColorAlt |-> << >>, diffMask |-> FALSE, writeTo |-> FALSE]

\* Threshold, Alpha, IncludeAntiAlias, DiffColorAlt, EnableDiffMask, WriteTo
\* applied to the defaults
OptionSet ==
  {[DefaultOptions EXCEPT !.threshold = t, !.alpha = al, !.includeAA = aa,
                          !.diffColorAlt = alt, !.diffMask = m, !.writeTo = w] :
     t \in Thresholds, al \in Alphas, aa \in BOOLEAN,
     alt \in {<< >>, <<AltColor>>}, m \in BOOLEAN, w \in BOOLEAN}

\* maxDelta := 35215 * options.threshold * options.threshold
maxDeltaOf(o) ==
  QMul(QMul(QInt(35215), QRat(o.threshold[1], o.threshold[2])),
       QRat(o.threshold[1], o.threshold[2]))

\* the comparison of line 143 turned around
exceedsFlipped(delta, o) == QLt(QAbs(delta), maxDeltaOf(o))

\* math.Abs(delta) > maxDelta
exceeds(delta, o) == QLt(maxDeltaOf(o), QAbs(delta))

\* v := uint8(blend(rgbaToY(r, g, b), a*aa)) with aa := options.alpha / 255
dimGray(c, alpha) ==
  LET f == rgbaFromColor(c)
      aa == QMul(QRat(alpha[1], alpha[2]), QRat(1, 255))
  IN  QToUint8(blend(rgbaToY(f.r, f.g, f.b), QMul(f.a, aa)))

DimTable == Tabulate([p \in Colors \X Alphas |-> dimGray(p[1], p[2])])

\* The values the scan needs of these pure functions, over the colours of
\* the images: delta and luma are colorDelta(a, b, false / true), exceeds is
\* math.Abs(delta) > maxDelta per threshold, dim is the dimmed gray.
MkTables(D, L, G) ==
  [delta |-> D, luma |-> L, dim |-> G,
   exceeds |-> Tabulate([p \in (DOMAIN D) \X Thresholds |->
                           exceeds(D[p[1]], [threshold |-> p[2]])])]

Tables == MkTables(DeltaTable, LumaTable, DimTable)

\* ------------------------------------------------------------------------
\* MatchPixel as a state machine.
\* ------------------------------------------------------------------------
VARIABLES
  a, b,        \* the two images
  options,     \* MatchOptions after the opts are applied
  slot,        \* the caller's *image.Image that WriteTo points at
  pc,          \* "start", "identical", "scan", "done", "panic", "panicrow", or
               \* "delta"/"deltadone"
  ret,         \* the returned (count, err)
  out,         \* var out *image.RGBA
  diff,        \* diff
  y,           \* the row variable of the scan loop
  ar, br,      \* the two imageLineReaders
  outLine,     \* outLine []uint8
  branch,      \* per scanned row, the branch of lines 143-179 each pixel took
  ca, cb,      \* two colours handed to colorDelta
  dab, dba,    \* colorDelta(ca, cb, false) and colorDelta(cb, ca, false)
  prev         \* the options and the count of the caller's previous call

vars == <<a, b, options, slot, pc, ret, out, diff, y, ar, br, outLine, branch, ca, cb, dab, dba, prev>>

\* what the caller's variable holds before the call
SlotInitial == [NilImage EXCEPT !.kind = "caller"]

NoReader == newImageLineReader(NilImage, 0)

Origins == {<<0, 0>>, <<1, 2>>}
Sizes == {<<0, 1>>, <<1, 0>>, <<1, 2>>, <<MaxW, MaxH>>}
Rects == {Rect(o[1], o[2], o[1] + s[1], o[2] + s[2]) : o \in Origins, s \in Sizes}

\* rectangles of any size and origin, one layout and picture, every option
SizeScenarios ==
  {[ra |-> r1, rb |-> r2, ka |-> "RGBA", kb |-> "RGBA", pa |-> "black", pb |-> "black",
    va |-> "full", vb |-> "full", o |-> o] :
     r1 \in Rects, r2 \in Rects, o \in OptionSet}

\* equal rectangles, every pair of pictures, layouts equal or one of them RGBA
ContentScenarios ==
  {[ra |-> r, rb |-> r, ka |-> k[1], kb |-> k[2], pa |-> p[1], pb |-> p[2],
    va |-> "full", vb |-> "full", o |-> o] :
     r \in {Rect(0, 0, 1, 2), Rect(0, 0, MaxW, MaxH), Rect(1, 2, 1 + MaxW, 2 + MaxH)},
     k \in {<<"RGBA", "RGBA">>, <<"NRGBA", "NRGBA">>, <<"Gray", "Gray">>,
            <<"Gray", "RGBA">>, <<"NRGBA", "RGBA">>},
     p \in ({"black", "diag3", "diag4"} \X {"black", "diag3", "diag4"})
             \cup {<<"clear5", "clear6">>, <<"clear5", "clear5">>, <<"clear5", "black">>,
                   <<"black", "dot">>, <<"dot", "black">>},
     o \in {q \in OptionSet : q.alpha = <<1, 10>>
                              /\ (~q.writeTo => (~q.diffMask /\ q.diffColorAlt = << >>))}}

\* sub-image views of larger buffers
ViewScenarios ==
  {[ra |-> r, rb |-> r, ka |-> k, kb |-> k, pa |-> p[1], pb |-> p[2],
    va |-> v[1], vb |-> v[2], o |-> o] :
     r \in {Rect(0, 0, MaxW, MaxH)}, k \in Kinds,
     p \in {<<"diag3", "diag3">>, <<"diag3", "diag4">>, <<"black", "black">>},
     v \in (Views \X Views) \ {<<"full", "full">>},
     o \in {q \in OptionSet : q.alpha = <<1, 10>> /\ q.threshold = <<1, 10>>
                              /\ ~q.diffMask /\ q.diffColorAlt = << >>}}

\* one row, and more rows than the five of a reader's window
HeightScenarios ==
  {[ra |-> r, rb |-> r, ka |-> k[1], kb |-> k[2], pa |-> p[1], pb |-> p[2],
    va |-> "full", vb |-> "full", o |-> o] :
     r \in {Rect(0, 0, 2, 1), Rect(0, 0, 1, TallH)},
     k \in {<<"RGBA", "RGBA">>, <<"Gray", "RGBA">>},
     p \in {<<"black", "diag3">>, <<"diag3", "diag4">>, <<"black", "dot">>, <<"diag3", "diag3">>},
     o \in {q \in OptionSet : q.alpha = <<1, 10>> /\ q.threshold = <<1, 10>>
                              /\ ~q.diffMask /\ q.diffColorAlt = << >>}}

\* two empty images of different layouts, of any origin and size
EmptyRects ==
  {Rect(o[1], o[2], o[1] + s[1], o[2] + s[2]) :
     o \in Origins, s \in {<<0, 1>>, <<1, 0>>, <<0, 2>>}}

EmptyScenarios ==
  {[ra |-> r1, rb |-> r2, ka |-> k[1], kb |-> k[2], pa |-> "black", pb |-> "black",
    va |-> "full", vb |-> "full", o |-> o] :
     r1 \in EmptyRects, r2 \in EmptyRects,
     k \in {<<"Gray", "RGBA">>, <<"RGBA", "Gray">>},
     o \in {q \in OptionSet : q.alpha = <<1, 10>> /\ q.threshold = <<1, 10>>
                              /\ ~q.diffMask /\ q.diffColorAlt = << >>}}

Scenarios == SizeScenarios \cup ContentScenarios \cup ViewScenarios \cup HeightScenarios
               \cup EmptyScenarios

NoPrev == [set |-> FALSE, options |-> DefaultOptions, count |-> 0]

Idle ==
  /\ ret = [count |-> 0, err |-> "none"]
  /\ out = NilImage
  /\ diff = 0
  /\ y = 0
  /\ ar = NoReader
  /\ br = NoReader
  /\ outLine = << >>
  /\ branch = << >>

Init ==
  /\ \E s \in Scenarios :
       /\ a = Fixture(s.ka, s.ra, s.pa, s.va)
       /\ b = Fixture(s.kb, s.rb, s.pb, s.vb)
       /\ options = s.o
  /\ slot = SlotInitial
  /\ pc = "start"
  /\ Idle
  /\ ca = NoColor /\ cb = NoColor /\ dab = QInt(0) /\ dba = QInt(0)
  /\ prev = NoPrev

\* lines 95-102: the bounds check, then the allocation of out
RejectSizes ==
  /\ pc = "start"
  /\ ~RectEq(a.Rect, b.Rect)
  /\ ret' = [count |-> 0, err |-> "ErrImageSizesNotMatch"]
  /\ pc' = "done"
  /\ UNCHANGED <<a, b, options, slot, out, diff, y, ar, br, outLine, branch, ca, cb, dab, dba, prev>>

AcceptSizes ==
  /\ pc = "start"
  /\ RectEq(a.Rect, b.Rect)
  /\ out' = IF options.writeTo THEN NewRGBA(a.Rect) ELSE NilImage
  /\ pc' = "identical"
  /\ UNCHANGED <<a, b, options, slot, ret, diff, y, ar, br, outLine, branch, ca, cb, dab, dba, prev>>

\* lines 106-116: the dimmed preview of image a
RECURSIVE previewLoop(_, _, _, _, _)
previewLoop(dim, img, o, k, alpha) ==
  LET w == Dx(img.Rect)
  IN  IF Empty(img.Rect) \/ k >= w * Dy(img.Rect) THEN o
      ELSE LET yy == img.Rect.Min.Y + (k \div w)
               i == k % w
               v == dim[<<readLine(w, img, yy)[i + 1], alpha>>]
           IN  previewLoop(dim, img, SetRGBA(o, img.Rect.Min.X + i, yy, RGBA8(v, v, v, 255)), k + 1, alpha)

\* lines 104-119: the fast path
FastPath ==
  /\ pc = "identical"
  /\ isIdentical(a, b) = "true"
  /\ out' = IF out # NilImage /\ ~options.diffMask
            THEN previewLoop(DimTable, a, out, 0, options.alpha) ELSE out
  /\ ret' = [count |-> 0, err |-> "nil"]
  /\ pc' = "done"
  /\ UNCHANGED <<a, b, options, slot, diff, y, ar, br, outLine, branch, ca, cb, dab, dba, prev>>

\* equals slices a row past the end of a buffer
IdenticalPanic ==
  /\ pc = "identical"
  /\ isIdentical(a, b) = "panic"
  /\ pc' = "panic"
  /\ UNCHANGED <<a, b, options, slot, ret, out, diff, y, ar, br, outLine, branch, ca, cb, dab, dba, prev>>

\* lines 121-135
StartScan ==
  /\ pc = "identical"
  /\ isIdentical(a, b) = "false"
  /\ diff' = 0
  /\ outLine' = IF out # NilImage THEN Tabulate([k \in 1..(Dx(a.Rect) * 4) |-> 255]) ELSE << >>
  /\ y' = a.Rect.Min.Y
  /\ ar' = newImageLineReader(a, a.Rect.Min.Y)
  /\ br' = newImageLineReader(b, a.Rect.Min.Y)
  /\ pc' = "scan"
  /\ UNCHANGED <<a, b, options, slot, ret, out, branch, ca, cb, dab, dba, prev>>

\* d[0] = r; d[1] = g; d[1] = b: the blue byte is left as it was
SetRGBShort(line, i, r, g, bl) ==
  Tabulate([k \in DOMAIN line |->
     IF k = i * 4 + 1 THEN r ELSE IF k = i * 4 + 2 THEN bl ELSE line[k]])

\* d := outLine[i*4 : i*4+4 : i*4+4]; d[0] = r; d[1] = g; d[2] = b
SetRGB(line, i, r, g, bl) ==
  Tabulate([k \in DOMAIN line |->
     IF k = i * 4 + 1 THEN r ELSE IF k = i * 4 + 2 THEN g
     ELSE IF k = i * 4 + 3 THEN bl ELSE line[k]])

\* the exclusion applied when includeAA is set instead of when it is not
excludedAAInverted(tab, ra, rb, x, yy, o) ==
  IF ~o.includeAA THEN "false"
  ELSE OrElse(isAntiAliased(tab, ra, rb, x, yy), isAntiAliased(tab, rb, ra, x, yy))

\* line 144: !options.includeAA && (isAntiAliased(ar, br, x, y) ||
\* isAntiAliased(br, ar, x, y))
excludedAA(tab, ra, rb, x, yy, o) ==
  IF o.includeAA THEN "false"
  ELSE OrElse(isAntiAliased(tab, ra, rb, x, yy), isAntiAliased(tab, rb, ra, x, yy))

\* lines 140-180: the pixels of one row.  st.res is "go", "panic" or
\* "panicrow";
\* st.cls lists the branch each pixel took: "same" (within the threshold),
\* "aa" (suppressed as anti-aliasing), "diffneg" / "diffpos" (counted, with
\* delta < 0 / not)
RECURSIVE rowLoop(_, _, _, _, _, _, _, _, _, _)
rowLoop(tab, i, aLine, bLine, ra, rb, yy, o, hasOut, st) ==
  IF i >= Len(aLine) THEN st
  ELSE IF i >= Len(bLine) THEN [st EXCEPT !.res = "panic"]
  ELSE
    LET delta == tab.delta[<<aLine[i + 1], bLine[i + 1]>>]
        x == ra.rect.Min.X + i
    IN  IF tab.exceeds[<< <<aLine[i + 1], bLine[i + 1]>>, o.threshold >>]
        THEN LET aa == excludedAA(tab, ra, rb, x, yy, o)
             IN  IF aa \notin {"true", "false"} THEN [st EXCEPT !.res = aa]
                 ELSE IF aa = "true"
                 THEN rowLoop(tab, i + 1, aLine, bLine, ra, rb, yy, o, hasOut,
                        [st EXCEPT !.cls = Append(st.cls, "aa"),
                                   !.outLine = IF hasOut /\ ~o.diffMask
                                               THEN SetRGB(st.outLine, i, o.antiAliasedColor.R,
                                                           o.antiAliasedColor.G, o.antiAliasedColor.B)
                                               ELSE st.outLine])
                 ELSE LET c == IF QSign(delta) < 0 /\ o.diffColorAlt # << >>
                               THEN o.diffColorAlt[1] ELSE o.diffColor
                      IN  rowLoop(tab, i + 1, aLine, bLine, ra, rb, yy, o, hasOut,
                            [st EXCEPT !.cls = Append(st.cls, IF QSign(delta) < 0 THEN "diffneg" ELSE "diffpos"),
                                       !.diff = st.diff + 1,
                                       !.outLine = IF hasOut THEN SetRGB(st.outLine, i, c.R, c.G, c.B)
                                                   ELSE st.outLine])
        ELSE LET v == tab.dim[<<aLine[i + 1], o.alpha>>]
             IN  rowLoop(tab, i + 1, aLine, bLine, ra, rb, yy, o, hasOut,
                   [st EXCEPT !.cls = Append(st.cls, "same"),
                              !.outLine = IF hasOut /\ ~o.diffMask
                                          THEN SetRGB(st.outLine, i, v, v, v) ELSE st.outLine])

\* one iteration of "for ; ar.Next() && br.Next(); y++" up to the end of
\* the pixel loop
RowResult(tab, ra, rb) ==
  rowLoop(tab, 0, Line(ra), Line(rb), ra, rb, y, options, out # NilImage,
          [outLine |-> outLine, diff |-> diff, cls |-> << >>, res |-> "go"])

\* the end of an iteration whose pixel loop gave rr, on the readers ra and rb
\* after their Next: the row is copied into out (lines 181-183)
RowScanned(ra, rb, rr) ==
  /\ rr.res = "go"
  /\ ar' = ra
  /\ br' = rb
  /\ outLine' = rr.outLine
  /\ diff' = rr.diff
  /\ branch' = Append(branch, rr.cls)
  /\ out' = IF out # NilImage
            THEN [out EXCEPT !.Pix = CopyAt(out.Pix, PixOffset(out, a.Rect.Min.X, y), rr.outLine)]
            ELSE out

\* the pixel loop indexed a reader out of range
RowPanicked(ra, rb, rr) ==
  /\ rr.res \in {"panic", "panicrow"}
  /\ ar' = ra
  /\ br' = rb
  /\ pc' = rr.res

\* lines 136-184: a row is scanned and copied into out
ScanRowWith(tab) ==
  /\ pc = "scan"
  /\ NextOK(ar) /\ NextOK(br)
  /\ RowScanned(ReaderNext(ar, a), ReaderNext(br, b),
                RowResult(tab, ReaderNext(ar, a), ReaderNext(br, b)))
  /\ y' = y + 1
  /\ UNCHANGED <<a, b, options, slot, pc, ret, ca, cb, dab, dba, prev>>

\* a reader is indexed out of range while a row is scanned
ScanPanicWith(tab) ==
  /\ pc = "scan"
  /\ NextOK(ar) /\ NextOK(br)
  /\ RowPanicked(ReaderNext(ar, a), ReaderNext(br, b),
                 RowResult(tab, ReaderNext(ar, a), ReaderNext(br, b)))
  /\ UNCHANGED <<a, b, options, slot, ret, out, diff, y, outLine, branch, ca, cb, dab, dba, prev>>

ScanRow == ScanRowWith(Tables)

ScanPanic == ScanPanicWith(Tables)

\* the loop condition fails; lines 186-190
Return ==
  /\ pc = "scan"
  /\ ~(NextOK(ar) /\ NextOK(br))
  /\ ar' = ReaderNext(ar, a)
  /\ br' = br
  /\ slot' = IF options.writeTo THEN out ELSE slot
  /\ ret' = [count |-> diff, err |-> "nil"]
  /\ pc' = "done"
  /\ UNCHANGED <<a, b, options, out, diff, y, outLine, branch, ca, cb, dab, dba, prev>>

Next == RejectSizes \/ AcceptSizes \/ FastPath \/ IdenticalPanic \/ StartScan
          \/ ScanRow \/ ScanPanic \/ Return

Spec == Init /\ [][Next]_vars

\* ------------------------------------------------------------------------
\* The caller compares the same pair again with a higher threshold.
\* ------------------------------------------------------------------------
\* t1 < t2 for two thresholds <<n, d>>
ThresholdLt(t1, t2) == t1[1] * t2[2] < t2[1] * t1[2]

CallAgain ==
  /\ pc = "done"
  /\ ret.err = "nil"
  /\ ~prev.set
  /\ \E t \in Thresholds :
       /\ ThresholdLt(options.threshold, t)
       /\ options' = [options EXCEPT !.threshold = t]
  /\ prev' = [set |-> TRUE, options |-> options, count |-> ret.count]
  /\ pc' = "start"
  /\ ret' = [count |-> 0, err |-> "none"]
  /\ out' = NilImage
  /\ diff' = 0
  /\ y' = 0
  /\ ar' = NoReader
  /\ br' = NoReader
  /\ outLine' = << >>
  /\ branch' = << >>
  /\ UNCHANGED <<a, b, slot, ca, cb, dab, dba>>

NextAgain == Next \/ CallAgain

SpecAgain == Init /\ [][NextAgain]_vars

\* ------------------------------------------------------------------------
\* The caller compares the same pair again with IncludeAntiAlias added.
\* ------------------------------------------------------------------------
CallAgainAA ==
  /\ pc = "done"
  /\ ret.err = "nil"
  /\ ~prev.set
  /\ ~options.includeAA
  /\ options' = [options EXCEPT !.includeAA = TRUE]
  /\ prev' = [set |-> TRUE, options |-> options, count |-> ret.count]
  /\ pc' = "start"
  /\ ret' = [count |-> 0, err |-> "none"]
  /\ out' = NilImage
  /\ diff' = 0
  /\ y' = 0
  /\ ar' = NoReader
  /\ br' = NoReader
  /\ outLine' = << >>
  /\ branch' = << >>
  /\ UNCHANGED <<a, b, slot, ca, cb, dab, dba>>

NextAA == Next \/ CallAgainAA

SpecAA == Init /\ [][NextAA]_vars

\* ------------------------------------------------------------------------
\* colorDelta applied to two colours.
\* ------------------------------------------------------------------------
InitDelta ==
  /\ ca \in DeltaColors
  /\ cb \in DeltaColors
  /\ dab = QInt(0) /\ dba = QInt(0)
  /\ pc = "delta"
  /\ a = NilImage /\ b = NilImage /\ options = DefaultOptions /\ slot = SlotInitial
  /\ Idle
  /\ prev = NoPrev

ApplyDeltaWith(D) ==
  /\ pc = "delta"
  /\ dab' = D[<<ca, cb>>]
  /\ dba' = D[<<cb, ca>>]
  /\ pc' = "deltadone"
  /\ UNCHANGED <<a, b, options, slot, ret, out, diff, y, ar, br, outLine, branch, ca, cb, prev>>

ApplyDelta == ApplyDeltaWith(DeltaTable)

NextDelta == ApplyDelta

SpecDelta == InitDelta /\ [][NextDelta]_vars

\* ------------------------------------------------------------------------
\* readLine applied to a line of one pixel, next to its default branch.
\* ------------------------------------------------------------------------
MaxByte == 255

ByteSamples == {0, 1, 2, 127, 128, MaxByte - 1, MaxByte}

\* 16-bit values as two bytes
WordSamples == ByteSamples \X ByteSamples

LinePixels ==
  {<<"RGBA", <<r, g, 128, u>> >> : r \in ByteSamples, g \in {0, MaxByte}, u \in ByteSamples}
  \cup {<<"NRGBA", <<r, g, 128, u>> >> : r \in ByteSamples, g \in {0, MaxByte}, u \in 0..MaxByte}
  \cup {<<"Gray", <<v>> >> : v \in 0..MaxByte}
  \cup {<<"Gray16", <<w[1], w[2]>> >> : w \in WordSamples}
  \cup {<<"RGBA64", <<r[1], r[2], MaxByte, MaxByte, 0, 1, u[1], u[2]>> >> :
           r \in WordSamples, u \in WordSamples}
  \cup {<<"NRGBA64", <<r[1], r[2], MaxByte, MaxByte, 0, 1, u[1], u[2]>> >> :
           r \in WordSamples, u \in WordSamples}

InitLine ==
  /\ \E p \in LinePixels : a = OnePixel(p[1], p[2])
  /\ pc = "line"
  /\ ca = NoColor /\ cb = NoColor /\ dab = QInt(0) /\ dba = QInt(0)
  /\ b = NilImage /\ options = DefaultOptions /\ slot = SlotInitial
  /\ Idle
  /\ prev = NoPrev

\* the line is decoded by the case of its layout and by the default branch
ReadLineBoth ==
  /\ pc = "line"
  /\ ca' = readLine(1, a, a.Rect.Min.Y)[1]
  /\ cb' = readLineGeneric(1, a, a.Rect.Min.Y)[1]
  /\ pc' = "linedone"
  /\ UNCHANGED <<a, b, options, slot, ret, out, diff, y, ar, br, outLine, branch, dab, dba, prev>>

NextLine == ReadLineBoth

SpecLine == InitLine /\ [][NextLine]_vars

\* ------------------------------------------------------------------------
\* blendRGBA and blend of src/pixelmatch.go, on 8-bit colours.
\* ------------------------------------------------------------------------
\* c - 255 for c of type uint8: the difference modulo 2^8
SubUint8(c, k) == (c - k + 256) % 256

\* uint8(f) for a float64 f of integer part v >= 0.  A value that uint8
\* cannot represent converts to an implementation-dependent result: the low
\* byte of the integer on builds that convert through a wider integer, the
\* largest value on builds that saturate
Uint8Of(v) == IF v <= MaxByte THEN {v} ELSE {v % 256, MaxByte}

\* blend(c, a) with a = float64(n) / 255: uint8(255 + float64(c-255)*a).
\* The float64 sum truncates to 255 + (c-255)*n \div 255 for all bytes c, n.
blendUint8(c, n) == Uint8Of(MaxByte + (SubUint8(c, MaxByte) * n) \div 255)

\* blendRGBA(rgba): the colours it can leave in *rgba
blendRGBAUint8(c) ==
  IF c.A < MaxByte
  THEN {RGBA8(r, g, v, c.A) : r \in blendUint8(c.R, c.A), g \in blendUint8(c.G, c.A),
                              v \in blendUint8(c.B, c.A)}
  ELSE {c}

BlendColors ==
  {RGBA8(r, g, 128, u) : r \in {0, 100, MaxByte - 1, MaxByte}, g \in {0, MaxByte}, u \in 0..MaxByte}

InitBlend ==
  /\ ca \in BlendColors
  /\ cb = NoColor
  /\ pc = "blend"
  /\ dab = QInt(0) /\ dba = QInt(0)
  /\ a = NilImage /\ b = NilImage /\ options = DefaultOptions /\ slot = SlotInitial
  /\ Idle
  /\ prev = NoPrev

ApplyBlend ==
  /\ pc = "blend"
  /\ cb' \in blendRGBAUint8(ca)
  /\ pc' = "blenddone"
  /\ UNCHANGED <<a, b, options, slot, ret, out, diff, y, ar, br, outLine, branch, ca, dab, dba, prev>>

NextBlend == ApplyBlend

SpecBlend == InitBlend /\ [][NextBlend]_vars

\* ------------------------------------------------------------------------
\* Vocabulary of the properties.
\* ------------------------------------------------------------------------
\* the call is over: it returned or it panicked
Finished == pc \in {"done", "panic", "panicrow"}

\* the canonical colours of the rows of img, over the width and height of r
Canon(img, r) ==
  [j \in 1..Dy(r) |-> readLine(Dx(r), img, img.Rect.Min.Y + j - 1)]

\* the bytes of the pixels of each row of img, without the padding between rows
LogicalRows(img, r) ==
  [j \in 1..Dy(r) |->
     Slice(img.Pix, (j - 1) * img.Stride,
           (j - 1) * img.Stride + Dx(r) * BytesPerPixel(img.kind))]

SizesDiffer == Dx(a.Rect) # Dx(b.Rect) \/ Dy(a.Rect) # Dy(b.Rect)

\* the call returned through the scan of lines 121-190
ScanReturned == pc = "done" /\ ret.err = "nil" /\ isIdentical(a, b) = "false"

\* the call returned through the fast path of lines 104-119
FastReturned == pc = "done" /\ ret.err = "nil" /\ isIdentical(a, b) = "true"

\* the pixel of an RGBA image at column i, row j (1-based, inside its bounds)
OutPixel(img, i, j) ==
  LET k == PixOffset(img, img.Rect.Min.X + i - 1, img.Rect.Min.Y + j - 1)
  IN  RGBA8(img.Pix[k + 1], img.Pix[k + 2], img.Pix[k + 3], img.Pix[k + 4])

SameRGB(c, d) == c.R = d.R /\ c.G = d.G /\ c.B = d.B

\* the pixel shows diffColor or the configured diffColorAlt
Highlighted(c) ==
  \/ SameRGB(c, options.diffColor)
  \/ options.diffColorAlt # << >> /\ SameRGB(c, options.diffColorAlt[1])

Counted(cls) == cls \in {"diffneg", "diffpos"}

Pixels == (1..Dy(a.Rect)) \X (1..Dx(a.Rect))

\* ------------------------------------------------------------------------
\* C1..C4: the result of a call.
\* ------------------------------------------------------------------------
\* C1: with default options, two images of equal bounds whose pixels decode
\* to the same canonical colours make MatchPixel return (0, nil).
C1_SameCanonicalReturnsZero ==
  (Finished /\ options = DefaultOptions /\ a.Rect = b.Rect
     /\ Canon(a, a.Rect) = Canon(b, b.Rect))
  => (pc = "done" /\ ret = [count |-> 0, err |-> "nil"])

\* C2: for every option configuration, two images whose width or height
\* differ make MatchPixel return (0, ErrImageSizesNotMatch) before a pixel is
\* compared, and the caller's WriteTo slot keeps its value.
C2_SizeMismatchRejected ==
  (Finished /\ SizesDiffer)
  => (pc = "done" /\ ret = [count |-> 0, err |-> "ErrImageSizesNotMatch"]
        /\ slot = SlotInitial /\ branch = << >> /\ out = NilImage)

\* C3: ErrImageSizesNotMatch is returned only when the widths or the heights
\* differ; images of equal width and height with different origins are
\* compared.
C3_RejectedOnlyOnSizes ==
  (pc = "done" /\ ret.err = "ErrImageSizesNotMatch") => SizesDiffer

\* C4: when WriteTo is configured and the call returns without an error, the
\* slot holds the visualization image, on the fast path as well.
C4_SlotHoldsVisualization ==
  (pc = "done" /\ ret.err = "nil" /\ options.writeTo)
  => (slot = out /\ slot # SlotInitial /\ slot.kind = "RGBA")

\* ------------------------------------------------------------------------
\* C5: the fast path is sound.
\* ------------------------------------------------------------------------
\* C5: isIdentical returns true only for two images of one packed layout
\* whose pixel bytes are equal row by row; so a call that returns through
\* the fast path has no pixel above the threshold, and returns 0.
C5_IdenticalSound ==
  /\ isIdentical(a, b) = "true"
       => (a.kind = b.kind /\ a.kind \in PackedKinds
             /\ LogicalRows(a, a.Rect) = LogicalRows(b, a.Rect))
  /\ FastReturned
       => /\ ret.count = 0
          /\ \A p \in Pixels :
               ~Tables.exceeds[<< <<Canon(a, a.Rect)[p[1]][p[2]],
                                    Canon(b, a.Rect)[p[1]][p[2]]>>, options.threshold >>]

\* a fast-path return over images with padding between their rows
C5_Witness ==
  /\ FastReturned
  /\ Dx(a.Rect) > 1 /\ Dy(a.Rect) > 1
  /\ a.Stride > Dx(a.Rect) * BytesPerPixel(a.kind)
  /\ options.writeTo

\* ------------------------------------------------------------------------
\* C6, C7: the visualization of a scan.
\* ------------------------------------------------------------------------
\* C6: with the diff mask on, a pixel of the returned image carries a diff
\* highlight exactly when the scan counted it as a difference.
C6_MaskHighlightsCounted ==
  (ScanReturned /\ options.writeTo /\ options.diffMask)
  => \A p \in Pixels :
       Highlighted(OutPixel(slot, p[2], p[1])) <=> Counted(branch[p[1]][p[2]])

\* C7: with the diff mask off, every pixel of the returned image is opaque
\* and coloured by its classification: the dimmed gray of A's pixel when
\* |delta| <= maxDelta, the anti-aliasing colour when the pixel is above the
\* threshold and suppressed as anti-aliasing, diffColorAlt when it is counted
\* with delta < 0 and an alternative colour is configured, diffColor
\* otherwise; the highlighted pixels are as many as the returned count.
C7_RenderingByClass ==
  (ScanReturned /\ options.writeTo /\ ~options.diffMask)
  => /\ \A p \in Pixels :
          LET cls == branch[p[1]][p[2]]
              pa == Canon(a, a.Rect)[p[1]][p[2]]
              pb == Canon(b, a.Rect)[p[1]][p[2]]
              px == OutPixel(slot, p[2], p[1])
              v == Tables.dim[<<pa, options.alpha>>]
              delta == Tables.delta[<<pa, pb>>]
          IN  /\ px.A = 255
              /\ (cls = "same") <=> ~Tables.exceeds[<< <<pa, pb>>, options.threshold >>]
              /\ cls = "same" => px = RGBA8(v, v, v, 255)
              /\ cls = "aa" => (~options.includeAA /\ SameRGB(px, options.antiAliasedColor))
              /\ cls = "diffneg"
                   => (QSign(delta) < 0
                         /\ SameRGB(px, IF options.diffColorAlt # << >>
                                        THEN options.diffColorAlt[1] ELSE options.diffColor))
              /\ cls = "diffpos" => (QSign(delta) >= 0 /\ SameRGB(px, options.diffColor))
     /\ Cardinality({p \in Pixels : Highlighted(OutPixel(slot, p[2], p[1]))}) = ret.count
     /\ ret.count = Cardinality({p \in Pixels : Counted(branch[p[1]][p[2]])})

\* a rendered scan with a pixel within the threshold and a pixel counted
\* with delta < 0 that shows the alternative colour
C7_Witness ==
  /\ ScanReturned /\ options.writeTo /\ ~options.diffMask
  /\ options.diffColorAlt # << >>
  /\ \E p \in Pixels : branch[p[1]][p[2]] = "diffneg"
  /\ \E p \in Pixels : branch[p[1]][p[2]] = "same"

\* a rendered scan with a pixel suppressed as anti-aliasing
C7_WitnessAA ==
  /\ ScanReturned /\ options.writeTo /\ ~options.diffMask
  /\ \E p \in Pixels : branch[p[1]][p[2]] = "aa"

\* ------------------------------------------------------------------------
\* C8, C9: colorDelta.
\* ------------------------------------------------------------------------
\* C8: |colorDelta(a, b, false)| <= 35215 for all canonical colours, so that
\* with threshold 1 no pixel is above maxDelta.
C8_DeltaBounded ==
  pc = "deltadone" => QLe(QAbs(dab), QInt(35215))

\* C9 as stated: colorDelta(a, b, false) = -colorDelta(b, a, false) for all
\* colours, the colours of equal luma included.
C9_Antisymmetric ==
  pc = "deltadone" => QEq(dab, QNeg(dba))

\* C9, amended: the two orders have the same magnitude; they have opposite
\* signs whenever the blended lumas differ; for colours of equal luma both
\* orders return the same value, which is not negative.
C9_SignFollowsLuma ==
  pc = "deltadone"
  => /\ QEq(QAbs(dab), QAbs(dba))
     /\ QSign(LumaOf(ca, cb)) # 0 => (QEq(dab, QNeg(dba)) /\ QSign(dab) = -QSign(LumaOf(ca, cb)))
     /\ QSign(LumaOf(ca, cb)) = 0 => (QEq(dab, dba) /\ QSign(dab) >= 0)

\* two colours of different luma with a delta that is not zero
C9_Witness ==
  pc = "deltadone" /\ QSign(LumaOf(ca, cb)) > 0 /\ QSign(dab) < 0 /\ QSign(dba) > 0

\* two different colours of equal luma with a delta that is not zero
C9_WitnessTie ==
  pc = "deltadone" /\ QSign(LumaOf(ca, cb)) = 0 /\ QSign(dab) > 0

\* ------------------------------------------------------------------------
\* C10: the count against the threshold.
\* ------------------------------------------------------------------------
\* C10: on the same pair of images, with the other options unchanged, a
\* higher threshold never gives a higher count.
C10_MonotoneInThreshold ==
  (pc = "done" /\ ret.err = "nil" /\ prev.set)
  => (/\ ThresholdLt(prev.options.threshold, options.threshold)
      /\ [options EXCEPT !.threshold = prev.options.threshold] = prev.options
      /\ ret.count <= prev.count)

\* a second call whose higher threshold lowers a count that stays above zero
C10_Witness ==
  /\ pc = "done" /\ ret.err = "nil" /\ prev.set
  /\ 0 < ret.count /\ ret.count < prev.count

\* ------------------------------------------------------------------------
\* C11: IncludeAntiAlias never lowers the count.
\* ------------------------------------------------------------------------
\* C11: when a call without IncludeAntiAlias returned and the same pair is
\* compared again with the same options plus IncludeAntiAlias, the second
\* count is at least the first.
C11_IncludeAAMonotone ==
  (pc = "done" /\ ret.err = "nil" /\ prev.set)
    => /\ options = [prev.options EXCEPT !.includeAA = TRUE]
       /\ ~prev.options.includeAA
       /\ ret.count >= prev.count

\* a pair whose count grows: some pixel was excluded as anti-aliasing
C11_Witness ==
  /\ pc = "done" /\ ret.err = "nil" /\ prev.set
  /\ isIdentical(a, b) = "false"
  /\ prev.count > 0
  /\ ret.count > prev.count

\* ------------------------------------------------------------------------
\* C12..C15: the line readers.
\* ------------------------------------------------------------------------
\* the reader has returned true from Next at least once: both readers start
\* at the first row of a
Advanced(r) == r.y > a.Rect.Min.Y

\* the rows within two rows of the current row, inside the bounds
WindowRows(r) == {yy \in (Y(r) - 2)..(Y(r) + 2) : RowInside(r, yy)}

\* the columns inside the bounds
Columns(r) == r.rect.Min.X..(r.rect.Max.X - 1)

\* the canonical colour of the pixel (x, yy) of img
CanonAt(img, x, yy) == readLine(Dx(img.Rect), img, yy)[x - img.Rect.Min.X + 1]

\* At(x, yy) answers with the pixel (x, yy) of img for every pixel of the window
AtReadsImage(r, img) ==
  \A x \in Columns(r), yy \in WindowRows(r) :
     At(r, x, yy) = [ok |-> TRUE, c |-> CanonAt(img, x, yy), fault |-> "none"]

\* C12: once a reader has advanced, At(x, y) with absolute coordinates inside
\* the bounds and y within two rows of the current row returns the canonical
\* colour of the pixel (x, y) of its image, whatever the origin of the
\* bounds; it never answers with another column and never indexes past the
\* end of the line.
C12_AtReturnsPixel ==
  /\ Advanced(ar) => AtReadsImage(ar, a)
  /\ Advanced(br) => AtReadsImage(br, b)

\* slot i (0..4) of the window holds the decoded row Y()+i-2 of img, or is
\* nil when that row is outside the bounds
SlotHoldsRow(r, img, i) ==
  LET yy == Y(r) + i - 2
  IN  IF RowInside(r, yy)
      THEN r.lines[i + 1].ok /\ r.lines[i + 1].data = readLine(r.width, img, yy)
      ELSE ~r.lines[i + 1].ok

WindowInvariant(r, img) ==
  /\ \A i \in 0..4 : SlotHoldsRow(r, img, i)
  /\ \A i, j \in 1..5 :
        (i # j /\ r.lines[i].ok /\ r.lines[j].ok) => r.lines[i].id # r.lines[j].id
  /\ RowInside(r, Y(r))
  /\ Line(r) = readLine(r.width, img, Y(r))

\* C13: after every call of Next that returned true, slot i of lines holds
\* the decoded row Y()+i-2 when that row is inside the bounds and is nil
\* otherwise, no two slots that are not nil share a buffer, and Line() is
\* the current row Y().
C13_WindowInvariant ==
  /\ Advanced(ar) => WindowInvariant(ar, a)
  /\ Advanced(br) => WindowInvariant(br, b)

\* ------------------------------------------------------------------------
\* C14: the rows the anti-aliasing test reads.
\* ------------------------------------------------------------------------
\* C14: no At call made by isAntiAliased or hasManySiblings during the scan
\* addresses a slot outside 0..4 or a nil slot of the window, whatever the
\* height of the images: no scan ends with pc = "panicrow", and while a row
\* with pixels is scanned every row within two rows of it and inside the
\* bounds is in its slot.
C14_RowsInsideWindow ==
  /\ pc # "panicrow"
  /\ (pc = "scan" /\ Advanced(ar) /\ Dx(a.Rect) > 0) =>
        \A r \in {ar, br} : \A yy \in WindowRows(r) :
           /\ yy - Y(r) + 2 \in 0..4
           /\ r.lines[yy - Y(r) + 3].ok

\* a scan that returned after a pixel was found anti-aliased: hasManySiblings
\* read the rows around a neighbour of another row
C14_Witness ==
  /\ ScanReturned
  /\ ~options.includeAA
  /\ Dy(a.Rect) >= 3
  /\ \E i \in 1..Len(branch) : \E j \in 1..Len(branch[i]) : branch[i][j] = "aa"

\* the anti-aliasing test ran on an image of one row
C14_WitnessOneRow ==
  /\ ScanReturned
  /\ ~options.includeAA
  /\ Dy(a.Rect) = 1
  /\ ret.count > 0

\* ------------------------------------------------------------------------
\* C15: the number of rows a reader delivers.
\* ------------------------------------------------------------------------
\* Next has returned true r.y - Min.Y times when the reader started at the
\* first row of its image; the reader is exhausted after Dy of them, Next
\* then returns false and leaves the reader as it is
Exhausted(r, img) ==
  /\ r.y - r.rect.Min.Y = Dy(r.rect)
  /\ ~NextOK(r)
  /\ ReaderNext(r, img) = r

\* C15: a reader over an image of height H returns true from Next exactly H
\* times and false afterwards without changing; during the scan both
\* readers stand at the loop variable y, no reader is past its last row,
\* and a scan that returns has made one iteration per row.
C15_OneIterationPerRow ==
  /\ pc = "scan" =>
        /\ ar.y = y /\ br.y = y
        /\ ar.rect.Min.Y <= ar.y /\ ar.y <= ar.rect.Max.Y
        /\ br.rect.Min.Y <= br.y /\ br.y <= br.rect.Max.Y
        /\ Len(branch) = y - a.Rect.Min.Y
  /\ ScanReturned =>
        /\ Exhausted(ar, a)
        /\ Exhausted(br, b)
        /\ Len(branch) = Dy(a.Rect)
        /\ Len(branch) = Dy(b.Rect)

\* ------------------------------------------------------------------------
\* C16: the slices of equals.
\* ------------------------------------------------------------------------
\* C16: for two images of the same layout and equal bounds, sub-image views
\* included, equals ends with true or false: no slice expression of it is
\* out of range, and no call ends in a panic before the scan has started.
C16_EqualsInRange ==
  (a.kind \in PackedKinds /\ b.kind = a.kind /\ a.Rect = b.Rect)
    => /\ equals(a.Pix, b.Pix, a.Stride, b.Stride, a.Rect) \in {"true", "false"}
       /\ ~(pc = "panic" /\ ar = NoReader)

\* ------------------------------------------------------------------------
\* C17: what isAntiAliased decides, stated over the pixels of the images.
\* ------------------------------------------------------------------------
\* the neighbours of (x1, y1) inside the bounds of img
Nbrs(img, x1, y1) ==
  {p \in (maxInt(x1 - 1, img.Rect.Min.X)..minInt(x1 + 1, img.Rect.Max.X - 1))
          \X (maxInt(y1 - 1, img.Rect.Min.Y)..minInt(y1 + 1, img.Rect.Max.Y - 1)) :
     p # <<x1, y1>>}

\* 1 for a pixel on an edge of img
EdgeSeed(img, x1, y1) ==
  IF \/ x1 = img.Rect.Min.X \/ x1 = img.Rect.Max.X - 1
     \/ y1 = img.Rect.Min.Y \/ y1 = img.Rect.Max.Y - 1
  THEN 1 ELSE 0

\* the luma delta of the pixel (x1, y1) of img to its neighbour p
LumaTo(img, x1, y1, p) == LumaOf(CanonAt(img, x1, y1), CanonAt(img, p[1], p[2]))

\* p is visited before q by the loops of lines 259-260
Before(p, q) == p[1] < q[1] \/ (p[1] = q[1] /\ p[2] < q[2])

\* the neighbour of the lowest delta among cand, the first visited at a tie
Lowest(img, x1, y1, cand) ==
  CHOOSE p \in cand : \A q \in cand \ {p} :
     \/ QLt(LumaTo(img, x1, y1, p), LumaTo(img, x1, y1, q))
     \/ (QEq(LumaTo(img, x1, y1, p), LumaTo(img, x1, y1, q)) /\ Before(p, q))

Highest(img, x1, y1, cand) ==
  CHOOSE p \in cand : \A q \in cand \ {p} :
     \/ QLt(LumaTo(img, x1, y1, q), LumaTo(img, x1, y1, p))
     \/ (QEq(LumaTo(img, x1, y1, p), LumaTo(img, x1, y1, q)) /\ Before(p, q))

\* the pixel p of img has more than two equal neighbours, the edge counted
ManySiblings(img, p) ==
  Cardinality({q \in Nbrs(img, p[1], p[2]) : CanonAt(img, q[1], q[2]) = CanonAt(img, p[1], p[2])})
    + EdgeSeed(img, p[1], p[2]) > 2

\* conditions (1), (2) and (3) for the pixel (x1, y1) of img against other
AntiAliasedPixel(img, other, x1, y1) ==
  LET nb == Nbrs(img, x1, y1)
      zero == {p \in nb : QSign(LumaTo(img, x1, y1, p)) = 0}
      neg == {p \in nb : QSign(LumaTo(img, x1, y1, p)) < 0}
      pos == {p \in nb : QSign(LumaTo(img, x1, y1, p)) > 0}
  IN  /\ Cardinality(zero) + EdgeSeed(img, x1, y1) <= 2
      /\ neg # {} /\ pos # {}
      /\ \/ ManySiblings(img, Lowest(img, x1, y1, neg))
            /\ ManySiblings(other, Lowest(img, x1, y1, neg))
         \/ ManySiblings(img, Highest(img, x1, y1, pos))
            /\ ManySiblings(other, Highest(img, x1, y1, pos))

\* isAntiAliased on the readers answers as the conditions say, for every
\* pixel of the current row
DecidesAsStated(ra, rb, img, other) ==
  \A x \in Columns(ra) :
     isAntiAliased(Tables, ra, rb, x, Y(ra))
       = (IF AntiAliasedPixel(img, other, x, Y(ra)) THEN "true" ELSE "false")

\* C17: isAntiAliased(primary, other, x, y) returns true if and only if, over
\* the neighbours of (x, y) inside the bounds, (1) the neighbours of zero
\* luma delta, plus 1 on an edge, number at most 2, (2) there is a neighbour
\* of negative and one of positive delta, (3) the neighbour of the lowest or
\* the one of the highest delta has more than two equal neighbours (the
\* edge counted) in both images.
C17_AntiAliasedIff ==
  (pc = "scan" /\ Advanced(ar) /\ Dx(a.Rect) > 0) =>
     /\ DecidesAsStated(ar, br, a, b)
     /\ DecidesAsStated(br, ar, b, a)

\* ------------------------------------------------------------------------
\* C18: the cases of readLine against its default branch.
\* ------------------------------------------------------------------------
\* the premultiplications of the pixel of img stay below 2^32
NoOverflow(img) ==
  LET s(k) == PixAt(img, k)
  IN  CASE img.kind = "NRGBA" ->
             \A k \in 0..2 : MulWide(Widen8(s(k)), s(3)).hi < 65536
        [] img.kind = "NRGBA64" ->
             \A k \in 0..2 : MulWide(Be16(s(2 * k), s(2 * k + 1)), Be16(s(6), s(7))).hi < 65536
        [] OTHER -> TRUE

\* C18: for a pixel of each layout readLine has a case for, the rgba value
\* that case stores equals the one the default branch would store, the
\* premultiplied 16-bit (r, g, b, a) of img.At(x, y).RGBA(), and no
\* premultiplication exceeds 32 bits.
C18_CasesMatchGeneric ==
  /\ pc = "linedone" => ca = cb
  /\ pc \in {"line", "linedone"} => NoOverflow(a)

\* a translucent NRGBA64 pixel whose channel the premultiplication lowers
C18_Witness ==
  /\ pc = "linedone"
  /\ a.kind = "NRGBA64"
  /\ ca.A > 0 /\ ca.A < 65535
  /\ ca.R > 0 /\ ca.R < Be16(a.Pix[1], a.Pix[2])
  /\ ca = cb

\* a translucent NRGBA pixel
C18_WitnessNRGBA ==
  /\ pc = "linedone"
  /\ a.kind = "NRGBA"
  /\ a.Pix[4] = 128 /\ a.Pix[1] = MaxByte
  /\ ca.R = 32896

\* ------------------------------------------------------------------------
\* C19: blend of src/pixelmatch.go.
\* ------------------------------------------------------------------------
\* the channel v blended from c with coverage n / 255 is the integer part of
\* 255 + (c - 255) * n / 255, the difference taken in the integers, up to
\* one unit of rounding, and lies between c and 255
BlendedAsStated(c, n, v) ==
  LET ideal == MaxByte - ((MaxByte - c) * n) \div 255
  IN  /\ v \in {ideal - 1, ideal}
      /\ c <= v /\ v <= MaxByte

\* C19: blend(c, a) of src/pixelmatch.go computes 255 + (c - 255) * a without
\* wrap-around of c - 255: each channel blendRGBA leaves lies between the
\* channel and 255 and is the stated value (half-transparent black gives
\* about 127).
C19_BlendNoWrap ==
  (pc = "blenddone" /\ ca.A < MaxByte) =>
     /\ cb.A = ca.A
     /\ BlendedAsStated(ca.R, ca.A, cb.R)
     /\ BlendedAsStated(ca.G, ca.A, cb.G)
     /\ BlendedAsStated(ca.B, ca.A, cb.B)

====
